---------------------------- MODULE Spec2Model ----------------------------
(***************************************************************************)
(* The Threshold Gambit: the generation/episode simulation engine.         *)
(*                                                                         *)
(*   HarshEnvironment  (src/enviroment.py)  stochastic reward source       *)
(*   SimpleAgent       (src/agent.py)       fixed give-up threshold        *)
(*   LearningAgent     (src/agent.py)       threshold learnt from history  *)
(*   run_simulation    (src/simulation.py)  the driver                     *)
(*                                                                         *)
(* Two specifications share the definitions of the methods:                *)
(*   Spec       run_simulation(config), one transition per call it makes,  *)
(*              over every documented configuration within the bounds;     *)
(*   SpecAgent  the public methods of one agent called in any order with   *)
(*              any arguments (the agent as a unit, outside the driver).   *)
(*                                                                         *)
(* Numbers.  reward_probability is the rational p / RPDen and a sample of  *)
(* random.random() is the rational s / RPDen with 0 <= s < RPDen.          *)
(* learning_rate is the rational lr / LRDen.  The arithmetic of            *)
(* learn_from_history is done exactly on these rationals; Python does it   *)
(* in binary floating point, which is exact for the dyadic rates (LRDen a  *)
(* power of two) and the small integers explored here.                     *)
(*                                                                         *)
(* Python lists are objects: decision_log holds a reference, modelled as   *)
(* an identifier into the heap `lists`; a list nobody references any more  *)
(* is freed (CPython reference counting).                                  *)
(***************************************************************************)
EXTENDS Integers, Sequences, FiniteSets, TLC

\* ------------------------------------------------------------------ bounds
\* num_generations ranges over 1..MaxGens
MaxGens == 2
\* max_steps_per_generation ranges over 1..MaxSteps
MaxSteps == 3
\* agent_initial_threshold ranges over 1..MaxThreshold
MaxThreshold == 2
\* reward probabilities and random samples are multiples of 1/RPDen
RPDen == 2
\* learning rates are multiples of 1/LRDen
LRDen == 2
\* SpecAgent: lifespans passed to learn_from_history range over 0..MaxLifespan
MaxLifespan == 3
\* SpecAgent: learn_from_history is called while the history is shorter
MaxHistory == 3
\* SpecAgent: record_step and decide_to_continue are called while the
\* decision log is shorter
MaxLogLen == 2

\* ------------------------------------------------------------- arithmetic
Max(a, b) == IF a >= b THEN a ELSE b

RECURSIVE Sum(_)
\* Python's sum() of a list of integers.
Sum(s) == IF s = <<>> THEN 0 ELSE Head(s) + Sum(Tail(s))

\* Faulty variant of Round: rounds a tie away from zero.
RoundHalfAway(n, d) ==
    LET q == n \div d
        r == n % d
    IN  IF 2 * r < d THEN q
        ELSE IF 2 * r > d THEN q + 1
        ELSE IF q >= 0 THEN q + 1 ELSE q

\* Python 3's round(n / d) for an integer n and d > 0: the nearest integer,
\* a tie going to the even neighbour.  (\div and % are floor division and the
\* non-negative remainder.)
Round(n, d) ==
    LET q == n \div d
        r == n % d
    IN  IF 2 * r < d THEN q
        ELSE IF 2 * r > d THEN q + 1
        ELSE IF q % 2 = 0 THEN q ELSE q + 1

\* ------------------------------------------------------------ list objects
\* id of the list object a `[]` expression creates: an identifier not in use.
NewList(heap) ==
    CHOOSE i \in 1..(Cardinality(DOMAIN heap) + 1) :
        /\ i \notin DOMAIN heap
        /\ \A j \in 1..(i - 1) : j \in DOMAIN heap

\* The heap once the lists that no reference in `roots` reaches are freed.
Collect(heap, roots) == [i \in (DOMAIN heap) \cap roots |-> heap[i]]

\* list.append(x) on the list object `id`.
ListAppend(heap, id, x) == [heap EXCEPT ![id] = Append(@, x)]

\* -------------------------------------------------------- HarshEnvironment
\* `0.0 <= reward_probability <= 1.0`
ProbabilityInRange(p) == 0 <= p /\ p <= RPDen

HarshEnvironment(p) ==
    [reward_probability |-> p,
     steps_taken |-> 0,
     total_rewards_given |-> 0,
     total_punishments_given |-> 0]

\* `random.random() < self.reward_probability` for the sample s / RPDen.
IsReward(env, s) == s < env.reward_probability

\* Faulty variant of step: steps_taken is counted on a punishment only.
step_count_punishments_only(env, s) ==
    IF IsReward(env, s)
    THEN [env EXCEPT !.total_rewards_given = @ + 1]
    ELSE [env EXCEPT !.steps_taken = @ + 1,
                     !.total_punishments_given = @ + 1]

\* HarshEnvironment.step(): the environment after the step whose sample is s.
step(env, s) ==
    IF IsReward(env, s)
    THEN [env EXCEPT !.steps_taken = @ + 1,
                     !.total_rewards_given = @ + 1]
    ELSE [env EXCEPT !.steps_taken = @ + 1,
                     !.total_punishments_given = @ + 1]

\* HarshEnvironment.get_stats(); actual_reward_rate is the pair
\* <<numerator, denominator>> of total_rewards_given / steps_taken.
get_stats(env) ==
    [total_steps |-> env.steps_taken,
     total_rewards |-> env.total_rewards_given,
     total_punishments |-> env.total_punishments_given,
     configured_reward_prob |-> env.reward_probability,
     actual_reward_rate |->
        IF env.steps_taken > 0
        THEN <<env.total_rewards_given, env.steps_taken>>
        ELSE <<0, 1>>]

\* HarshEnvironment.reset_stats()
reset_stats(env) ==
    [env EXCEPT !.steps_taken = 0,
                !.total_rewards_given = 0,
                !.total_punishments_given = 0]

\* -------------------------------------------------------------- SimpleAgent
\* One line of decision_log: the f-string's text, kept as its fields
\* (a field the text does not mention is 0).
LogEntry(event, at_step, consecutive, threshold) ==
    [event |-> event, step |-> at_step,
     consecutive |-> consecutive, threshold |-> threshold]

\* Faulty variant of ThresholdValid: a threshold of 0 is accepted.
ThresholdValid_accepts_zero(give_up_threshold) == ~(give_up_threshold < 0)

\* `if give_up_threshold <= 0: raise ValueError`
ThresholdValid(give_up_threshold) == ~(give_up_threshold <= 0)

\* SimpleAgent.__init__: the new agent and the heap holding its empty log.
\* learning_rate and historical_lifespans are attributes of a LearningAgent
\* only; a SimpleAgent carries them as 0 and <<>> and no method reads them.
SimpleAgent(give_up_threshold, heap) ==
    LET id == NewList(heap)
    IN  [self |-> [kind |-> "SimpleAgent",
                   give_up_threshold |-> give_up_threshold,
                   consecutive_punishments |-> 0,
                   total_punishments_received |-> 0,
                   total_rewards_received |-> 0,
                   steps_lived |-> 0,
                   decision_log |-> id,
                   learning_rate |-> 0,
                   historical_lifespans |-> <<>>],
         heap |-> (id :> <<>>) @@ heap]

\* Faulty variant of SimpleAgent_reset: steps_lived is not cleared.
SimpleAgent_reset_keeps_steps(self, heap) ==
    LET id == NewList(heap)
    IN  [self |-> [self EXCEPT !.consecutive_punishments = 0,
                               !.total_punishments_received = 0,
                               !.total_rewards_received = 0,
                               !.decision_log = id],
         heap |-> (id :> <<>>) @@ heap]

\* Faulty variant of SimpleAgent_reset: give_up_threshold is zeroed with the
\* counters.
SimpleAgent_reset_zeroes_threshold(self, heap) ==
    LET id == NewList(heap)
    IN  [self |-> [self EXCEPT !.consecutive_punishments = 0,
                               !.total_punishments_received = 0,
                               !.total_rewards_received = 0,
                               !.steps_lived = 0,
                               !.give_up_threshold = 0,
                               !.decision_log = id],
         heap |-> (id :> <<>>) @@ heap]

\* Faulty variant of SimpleAgent_reset: the list decision_log refers to is
\* emptied in place (`self.decision_log.clear()`), no new list is made.
SimpleAgent_reset_clears_in_place(self, heap) ==
    [self |-> [self EXCEPT !.consecutive_punishments = 0,
                           !.total_punishments_received = 0,
                           !.total_rewards_received = 0,
                           !.steps_lived = 0],
     heap |-> [heap EXCEPT ![self.decision_log] = <<>>]]

\* SimpleAgent.reset(): the counters are zeroed and decision_log is bound to
\* a new empty list (the old list object is left as it is).
SimpleAgent_reset(self, heap) ==
    LET id == NewList(heap)
    IN  [self |-> [self EXCEPT !.consecutive_punishments = 0,
                               !.total_punishments_received = 0,
                               !.total_rewards_received = 0,
                               !.steps_lived = 0,
                               !.decision_log = id],
         heap |-> (id :> <<>>) @@ heap]

\* Faulty variant of record_step: a reward leaves the streak as it is.
record_step_reward_keeps_streak(self, heap, is_reward) ==
    LET lived == self.steps_lived + 1
    IN  IF is_reward
        THEN [self |-> [self EXCEPT !.steps_lived = lived,
                                    !.total_rewards_received = @ + 1],
              heap |-> ListAppend(heap, self.decision_log,
                          LogEntry("REWARD", lived, 0, 0))]
        ELSE [self |-> [self EXCEPT !.steps_lived = lived,
                                    !.total_punishments_received = @ + 1,
                                    !.consecutive_punishments = @ + 1],
              heap |-> ListAppend(heap, self.decision_log,
                          LogEntry("PUNISHMENT", lived,
                                   self.consecutive_punishments + 1, 0))]

\* SimpleAgent.record_step(is_reward)
record_step(self, heap, is_reward) ==
    LET lived == self.steps_lived + 1
    IN  IF is_reward
        THEN [self |-> [self EXCEPT !.steps_lived = lived,
                                    !.total_rewards_received = @ + 1,
                                    !.consecutive_punishments = 0],
              heap |-> ListAppend(heap, self.decision_log,
                          LogEntry("REWARD", lived, 0, 0))]
        ELSE [self |-> [self EXCEPT !.steps_lived = lived,
                                    !.total_punishments_received = @ + 1,
                                    !.consecutive_punishments = @ + 1],
              heap |-> ListAppend(heap, self.decision_log,
                          LogEntry("PUNISHMENT", lived,
                                   self.consecutive_punishments + 1, 0))]

\* Faulty variant of decide_to_continue: `>` for `>=`.
decide_to_continue_strict(self, heap) ==
    IF self.consecutive_punishments > self.give_up_threshold
    THEN [ret |-> FALSE, self |-> self,
          heap |-> ListAppend(heap, self.decision_log,
                      LogEntry("GIVE_UP", self.steps_lived,
                               self.consecutive_punishments,
                               self.give_up_threshold))]
    ELSE [ret |-> TRUE, self |-> self, heap |-> heap]

\* Faulty variant of decide_to_continue: giving up clears the streak.
decide_to_continue_clears_streak(self, heap) ==
    IF self.consecutive_punishments >= self.give_up_threshold
    THEN [ret |-> FALSE,
          self |-> [self EXCEPT !.consecutive_punishments = 0],
          heap |-> ListAppend(heap, self.decision_log,
                      LogEntry("GIVE_UP", self.steps_lived,
                               self.consecutive_punishments,
                               self.give_up_threshold))]
    ELSE [ret |-> TRUE, self |-> self, heap |-> heap]

\* SimpleAgent.decide_to_continue(): ret is the decision (TRUE to continue).
decide_to_continue(self, heap) ==
    IF self.consecutive_punishments >= self.give_up_threshold
    THEN [ret |-> FALSE, self |-> self,
          heap |-> ListAppend(heap, self.decision_log,
                      LogEntry("GIVE_UP", self.steps_lived,
                               self.consecutive_punishments,
                               self.give_up_threshold))]
    ELSE [ret |-> TRUE, self |-> self, heap |-> heap]

\* SimpleAgent.get_generation_summary(): decision_log is the reference the
\* agent holds, not a copy of the list.
get_generation_summary(self) ==
    [lifespan |-> self.steps_lived,
     total_rewards |-> self.total_rewards_received,
     total_punishments |-> self.total_punishments_received,
     final_consecutive_punishments |-> self.consecutive_punishments,
     decision_log |-> self.decision_log]

\* ------------------------------------------------------------ LearningAgent
\* LearningAgent.__init__: SimpleAgent.__init__, then the rate and the
\* history seeded with the initial threshold.
LearningAgent(initial_threshold, learning_rate, heap) ==
    LET base == SimpleAgent(initial_threshold, heap)
    IN  [self |-> [base.self EXCEPT
                      !.kind = "LearningAgent",
                      !.learning_rate = learning_rate,
                      !.historical_lifespans = <<initial_threshold>>],
         heap |-> base.heap]

\* target_threshold = max(1, int(round(current_avg))) for the history h.
\* The else branch is the source's fallback for an empty history.
TargetThreshold(self, h) ==
    IF h # <<>>
    THEN Max(1, Round(Sum(h), Len(h)))
    ELSE Max(1, Round(self.give_up_threshold, 1))

\* new_threshold = int(round(threshold*(1 - rate) + target*rate)), the rate
\* being self.learning_rate / LRDen.
Interpolate(self, target_threshold) ==
    Round(self.give_up_threshold * (LRDen - self.learning_rate)
            + target_threshold * self.learning_rate, LRDen)

\* Faulty variant of learn_from_history: the final `max(1, ...)` is missing.
learn_from_history_unclamped(self, current_lifespan) ==
    LET h == Append(self.historical_lifespans, current_lifespan)
    IN  [self EXCEPT !.historical_lifespans = h,
                     !.give_up_threshold =
                         Interpolate(self, TargetThreshold(self, h))]

\* Faulty variant of learn_from_history: the weights are swapped.
learn_from_history_swapped(self, current_lifespan) ==
    LET h == Append(self.historical_lifespans, current_lifespan)
        target_threshold == TargetThreshold(self, h)
    IN  [self EXCEPT !.historical_lifespans = h,
                     !.give_up_threshold = Max(1,
                         Round(self.give_up_threshold * self.learning_rate
                               + target_threshold
                                   * (LRDen - self.learning_rate), LRDen))]

\* Faulty variant of learn_from_history: ties are rounded away from zero.
learn_from_history_half_away(self, current_lifespan) ==
    LET h == Append(self.historical_lifespans, current_lifespan)
        target_threshold == Max(1, RoundHalfAway(Sum(h), Len(h)))
    IN  [self EXCEPT !.historical_lifespans = h,
                     !.give_up_threshold = Max(1,
                         RoundHalfAway(
                             self.give_up_threshold
                                 * (LRDen - self.learning_rate)
                             + target_threshold * self.learning_rate,
                             LRDen))]

\* Faulty variant of learn_from_history: the old threshold is not weighted
\* by (1 - learning_rate).
learn_from_history_overshoots(self, current_lifespan) ==
    LET h == Append(self.historical_lifespans, current_lifespan)
        target_threshold == TargetThreshold(self, h)
        new_threshold ==
            Round(self.give_up_threshold * LRDen
                    + target_threshold * self.learning_rate, LRDen)
    IN  [self EXCEPT !.historical_lifespans = h,
                     !.give_up_threshold = Max(1, new_threshold)]

\* LearningAgent.learn_from_history(current_lifespan)
learn_from_history(self, current_lifespan) ==
    LET h == Append(self.historical_lifespans, current_lifespan)
        target_threshold == TargetThreshold(self, h)
        new_threshold == Interpolate(self, target_threshold)
    IN  [self EXCEPT !.historical_lifespans = h,
                     !.give_up_threshold = Max(1, new_threshold)]

\* Faulty variant of LearningAgent_reset: the threshold goes back to the seed.
LearningAgent_reset_reverts(self, heap) ==
    LET id == NewList(heap)
    IN  [self |-> [self EXCEPT !.consecutive_punishments = 0,
                               !.total_punishments_received = 0,
                               !.total_rewards_received = 0,
                               !.steps_lived = 0,
                               !.decision_log = id,
                               !.give_up_threshold =
                                   self.historical_lifespans[1]],
         heap |-> (id :> <<>>) @@ heap]

\* LearningAgent.reset(): the same five assignments as SimpleAgent.reset();
\* give_up_threshold and historical_lifespans are not assigned.
LearningAgent_reset(self, heap) ==
    LET id == NewList(heap)
    IN  [self |-> [self EXCEPT !.consecutive_punishments = 0,
                               !.total_punishments_received = 0,
                               !.total_rewards_received = 0,
                               !.steps_lived = 0,
                               !.decision_log = id],
         heap |-> (id :> <<>>) @@ heap]

\* agent.reset(): the method of the agent's class.
reset(self, heap) ==
    IF self.kind = "LearningAgent"
    THEN LearningAgent_reset(self, heap)
    ELSE SimpleAgent_reset(self, heap)

\* `isinstance(agent, LearningAgent)`
IsLearningAgent(self) == self.kind = "LearningAgent"

\* ------------------------------------------------------------------- state
VARIABLES
    pc,                    \* where run_simulation is ("agent_api" in SpecAgent)
    config,                \* the configuration dictionary
    environment,           \* the HarshEnvironment object
    agent,                 \* the agent object
    lists,                 \* the live list objects: id -> contents
    gen_num,               \* loop variable of `for gen_num in range(...)`
    current_threshold,     \* threshold captured after reset()
    step_count_this_gen,
    is_reward,             \* outcome of the last environment.step()
    should_continue,       \* result of the last decide_to_continue()
    end_reason,
    all_generation_data,   \* the generation records, in order
    generations_completed,
    interrupted,           \* a KeyboardInterrupt reached the except clause
    failed,                \* another exception reached the except clause
    returned,              \* the value run_simulation returned, once it has
    op,                    \* SpecAgent: the method called last
    prev_op,               \* SpecAgent: the method called before that
    arg,                   \* SpecAgent: the argument of the last call
    before                 \* SpecAgent: the agent before the last call

vars ==
    <<pc, config, environment, agent, lists, gen_num, current_threshold,
      step_count_this_gen, is_reward, should_continue, end_reason,
      all_generation_data, generations_completed, interrupted, failed,
      returned,
      op, prev_op, arg, before>>

driverVars ==
    <<config, environment, gen_num, current_threshold, step_count_this_gen,
      is_reward, end_reason, all_generation_data, generations_completed,
      interrupted, failed, returned>>

apiVars == <<op, prev_op, arg, before>>

\* The agent with its decision_log reference replaced by the list's contents.
View(self, heap) == [self EXCEPT !.decision_log = heap[self.decision_log]]

\* The list objects a state of run_simulation references: the agent's log
\* and the logs held by the summaries of the records.
Roots(self, data) ==
    {self.decision_log}
        \cup {data[i].summary.decision_log : i \in 1..Len(data)}

NotReturned == [returned |-> FALSE, data |-> <<>>, stats |-> <<>>]

\* --------------------------------------------------------- run_simulation
\* The documented configurations (spec section 6, main.py's options), within
\* the bounds.  learning_rate is read for a LearningAgent only.
Configs ==
    { [num_generations |-> n, reward_probability |-> p, agent_type |-> t,
       agent_initial_threshold |-> th, learning_rate |-> lr,
       max_steps_per_generation |-> m] :
        n \in 1..MaxGens, p \in 0..RPDen,
        t \in {"SimpleAgent", "LearningAgent"},
        th \in 1..MaxThreshold, lr \in 0..LRDen, m \in 1..MaxSteps }

\* The agent the initialization block constructs for a configuration.
NewAgent(cfg, heap) ==
    IF cfg.agent_type = "LearningAgent"
    THEN LearningAgent(cfg.agent_initial_threshold, cfg.learning_rate, heap)
    ELSE SimpleAgent(cfg.agent_initial_threshold, heap)

\* run_simulation after its initialization block succeeded: environment and
\* agent constructed, no generation started.
Init ==
    /\ config \in Configs
    /\ config.agent_type = "SimpleAgent" => config.learning_rate = 0
    /\ ProbabilityInRange(config.reward_probability)
    /\ ThresholdValid(config.agent_initial_threshold)
    /\ environment = HarshEnvironment(config.reward_probability)
    /\ LET a == NewAgent(config, <<>>)
       IN  agent = a.self /\ lists = a.heap
    /\ pc = "for"
    /\ gen_num = 0
    /\ current_threshold = 0
    /\ step_count_this_gen = 0
    /\ is_reward = FALSE
    /\ should_continue = TRUE
    /\ end_reason = "unset"
    /\ all_generation_data = <<>>
    /\ generations_completed = 0
    /\ interrupted = FALSE
    /\ failed = FALSE
    /\ returned = NotReturned
    /\ op = "none" /\ prev_op = "none" /\ arg = 0 /\ before = <<>>

\* The finally block and the return statement.
\* Faulty variant of Return: the statistics of a freshly reset environment
\* instead of those at the end of the loop.
Return_stats_reset ==
    /\ pc' = "done"
    /\ returned' = [returned |-> TRUE,
                    data |-> all_generation_data,
                    stats |-> get_stats(reset_stats(environment))]

Return ==
    /\ pc' = "done"
    /\ returned' = [returned |-> TRUE,
                    data |-> all_generation_data,
                    stats |-> get_stats(environment)]

\* Faulty variant of StartGeneration: the environment's statistics are
\* reset at the start of every generation.
StartGeneration_resets_stats ==
    /\ pc = "for"
    /\ gen_num < config.num_generations
    /\ gen_num' = gen_num + 1
    /\ LET r == reset(agent, lists)
       IN  /\ agent' = r.self
           /\ lists' = Collect(r.heap, Roots(r.self, all_generation_data))
           /\ current_threshold' = r.self.give_up_threshold
    /\ step_count_this_gen' = 0
    /\ environment' = reset_stats(environment)
    /\ pc' = "env_step"
    /\ UNCHANGED <<config, is_reward, should_continue,
                   end_reason, all_generation_data, generations_completed,
                   interrupted, failed,
                   returned>>
    /\ UNCHANGED apiVars

\* Top of the for loop, a generation left to run: agent.reset(), the
\* threshold captured, the step counter zeroed.
StartGeneration ==
    /\ pc = "for"
    /\ gen_num < config.num_generations
    /\ gen_num' = gen_num + 1
    /\ LET r == reset(agent, lists)
       IN  /\ agent' = r.self
           /\ lists' = Collect(r.heap, Roots(r.self, all_generation_data))
           /\ current_threshold' = r.self.give_up_threshold
    /\ step_count_this_gen' = 0
    /\ pc' = "env_step"
    /\ UNCHANGED <<config, environment, is_reward, should_continue,
                   end_reason, all_generation_data, generations_completed,
                   interrupted, failed,
                   returned>>
    /\ UNCHANGED apiVars

\* Top of the for loop, the range exhausted: finally block and return.
LoopExhausted ==
    /\ pc = "for"
    /\ ~(gen_num < config.num_generations)
    /\ Return
    /\ UNCHANGED <<config, environment, agent, lists, gen_num,
                   current_threshold, step_count_this_gen, is_reward,
                   should_continue, end_reason, all_generation_data,
                   generations_completed, interrupted, failed>>
    /\ UNCHANGED apiVars

\* `step_count_this_gen += 1; is_reward = environment.step()`
EnvStep ==
    /\ pc = "env_step"
    /\ \E s \in 0..(RPDen - 1) :
        /\ is_reward' = IsReward(environment, s)
        /\ environment' = step(environment, s)
    /\ step_count_this_gen' = step_count_this_gen + 1
    /\ pc' = "record_step"
    /\ UNCHANGED <<config, agent, lists, gen_num, current_threshold,
                   should_continue, end_reason, all_generation_data,
                   generations_completed, interrupted, failed,
                   returned>>
    /\ UNCHANGED apiVars

\* `agent.record_step(is_reward)`
RecordStep ==
    /\ pc = "record_step"
    /\ LET r == record_step(agent, lists, is_reward)
       IN  agent' = r.self /\ lists' = r.heap
    /\ pc' = "decide"
    /\ UNCHANGED <<should_continue>>
    /\ UNCHANGED driverVars
    /\ UNCHANGED apiVars

\* `should_continue = agent.decide_to_continue()`
Decide ==
    /\ pc = "decide"
    /\ LET r == decide_to_continue(agent, lists)
       IN  agent' = r.self /\ lists' = r.heap /\ should_continue' = r.ret
    /\ pc' = "if_give_up"
    /\ UNCHANGED driverVars
    /\ UNCHANGED apiVars

\* Faulty variant of IfGiveUp: the safety break is tested first.
IfGiveUp_after_max_steps ==
    /\ pc = "if_give_up"
    /\ IF step_count_this_gen >= config.max_steps_per_generation
       THEN end_reason' = "Max Steps Reached" /\ pc' = "post"
       ELSE IF ~should_continue
            THEN end_reason' = "Agent Threshold Reached" /\ pc' = "post"
            ELSE end_reason' = end_reason /\ pc' = "env_step"
    /\ UNCHANGED <<config, environment, agent, lists, gen_num,
                   current_threshold, step_count_this_gen, is_reward,
                   should_continue, all_generation_data,
                   generations_completed, interrupted, failed,
                   returned>>
    /\ UNCHANGED apiVars

\* Faulty variant of IfGiveUp: the decision is not looked at, the loop goes
\* on to the step cap test.
IfGiveUp_ignores_decision ==
    /\ pc = "if_give_up"
    /\ end_reason' = end_reason /\ pc' = "if_max_steps"
    /\ UNCHANGED <<config, environment, agent, lists, gen_num,
                   current_threshold, step_count_this_gen, is_reward,
                   should_continue, all_generation_data,
                   generations_completed, interrupted, failed,
                   returned>>
    /\ UNCHANGED apiVars

\* `if not should_continue: end_reason = "Agent Threshold Reached"; break`
IfGiveUp ==
    /\ pc = "if_give_up"
    /\ IF ~should_continue
       THEN end_reason' = "Agent Threshold Reached" /\ pc' = "post"
       ELSE end_reason' = end_reason /\ pc' = "if_max_steps"
    /\ UNCHANGED <<config, environment, agent, lists, gen_num,
                   current_threshold, step_count_this_gen, is_reward,
                   should_continue, all_generation_data,
                   generations_completed, interrupted, failed,
                   returned>>
    /\ UNCHANGED apiVars

\* Faulty variant of MaxStepsReached: `>` for `>=`.
MaxStepsReached_strict(count, max_steps) == count > max_steps

\* Faulty variant of MaxStepsReached: one step early.
MaxStepsReached_early(count, max_steps) == count + 1 >= max_steps

\* `step_count_this_gen >= config['max_steps_per_generation']`
MaxStepsReached(count, max_steps) == count >= max_steps

\* The safety break: `if step_count_this_gen >= max_steps_per_generation:
\* end_reason = "Max Steps Reached"; break`, else the while loop goes round.
IfMaxSteps ==
    /\ pc = "if_max_steps"
    /\ IF MaxStepsReached(step_count_this_gen,
                          config.max_steps_per_generation)
       THEN end_reason' = "Max Steps Reached" /\ pc' = "post"
       ELSE end_reason' = end_reason /\ pc' = "env_step"
    /\ UNCHANGED <<config, environment, agent, lists, gen_num,
                   current_threshold, step_count_this_gen, is_reward,
                   should_continue, all_generation_data,
                   generations_completed, interrupted, failed,
                   returned>>
    /\ UNCHANGED apiVars

\* The record of the generation that just ended (duration_sec, a wall-clock
\* reading, is left out).
GenerationData(num, summary, reason, threshold) ==
    [generation |-> num,
     summary |-> summary,
     end_reason |-> reason,
     threshold_used |-> threshold]

\* Faulty variant of PostGeneration: the record is numbered from 0.
PostGeneration_numbers_from_zero ==
    /\ pc = "post"
    /\ all_generation_data' =
          Append(all_generation_data,
                 GenerationData(generations_completed,
                                get_generation_summary(agent),
                                end_reason, current_threshold))
    /\ generations_completed' = generations_completed + 1
    /\ pc' = "learn"
    /\ UNCHANGED <<config, environment, agent, lists, gen_num,
                   current_threshold, step_count_this_gen, is_reward,
                   should_continue, end_reason, interrupted, failed,
                   returned>>
    /\ UNCHANGED apiVars

\* Post-generation processing: the summary is taken, the record appended.
PostGeneration ==
    /\ pc = "post"
    /\ all_generation_data' =
          Append(all_generation_data,
                 GenerationData(gen_num, get_generation_summary(agent),
                                end_reason, current_threshold))
    /\ generations_completed' = generations_completed + 1
    /\ pc' = "learn"
    /\ UNCHANGED <<config, environment, agent, lists, gen_num,
                   current_threshold, step_count_this_gen, is_reward,
                   should_continue, end_reason, interrupted, failed,
                   returned>>
    /\ UNCHANGED apiVars

\* Faulty variant of Learn: the agent learns only from a generation it gave
\* up.
Learn_only_after_give_up ==
    /\ pc = "learn"
    /\ agent' =
          IF IsLearningAgent(agent)
                /\ end_reason = "Agent Threshold Reached"
          THEN learn_from_history(agent,
                  all_generation_data[Len(all_generation_data)]
                      .summary.lifespan)
          ELSE agent
    /\ pc' = "for"
    /\ UNCHANGED <<lists, should_continue>>
    /\ UNCHANGED driverVars
    /\ UNCHANGED apiVars

\* Faulty variant of Learn: the learning update draws the new threshold at
\* random.
Learn_random_threshold ==
    /\ pc = "learn"
    /\ \E t \in 1..MaxThreshold :
          agent' =
              IF IsLearningAgent(agent)
              THEN [learn_from_history(agent,
                       all_generation_data[Len(all_generation_data)]
                           .summary.lifespan)
                    EXCEPT !.give_up_threshold = t]
              ELSE agent
    /\ pc' = "for"
    /\ UNCHANGED <<lists, should_continue>>
    /\ UNCHANGED driverVars
    /\ UNCHANGED apiVars

\* `if isinstance(agent, LearningAgent):
\*      agent.learn_from_history(gen_summary['lifespan'])`
Learn ==
    /\ pc = "learn"
    /\ agent' =
          IF IsLearningAgent(agent)
          THEN learn_from_history(agent,
                  all_generation_data[Len(all_generation_data)]
                      .summary.lifespan)
          ELSE agent
    /\ pc' = "for"
    /\ UNCHANGED <<lists, should_continue>>
    /\ UNCHANGED driverVars
    /\ UNCHANGED apiVars

\* The program points inside the try block of the main loop.
LoopPcs ==
    {"for", "env_step", "record_step", "decide", "if_give_up",
     "if_max_steps", "post", "learn"}

\* Faulty variant of KeyboardInterrupt: the interrupt leaves run_simulation.
KeyboardInterrupt_propagates ==
    /\ pc \in LoopPcs
    /\ interrupted' = TRUE
    /\ pc' = "raised"
    /\ UNCHANGED <<config, environment, agent, lists, gen_num,
                   current_threshold, step_count_this_gen, is_reward,
                   should_continue, end_reason, all_generation_data,
                   generations_completed, failed, returned>>
    /\ UNCHANGED apiVars

\* A KeyboardInterrupt raised between two calls of the loop: the except
\* clause, then the finally block and the return.
KeyboardInterrupt ==
    /\ pc \in LoopPcs
    /\ interrupted' = TRUE
    /\ Return
    /\ UNCHANGED <<config, environment, agent, lists, gen_num,
                   current_threshold, step_count_this_gen, is_reward,
                   should_continue, end_reason, all_generation_data,
                   generations_completed, failed>>
    /\ UNCHANGED apiVars

\* Faulty variant of UnexpectedError: the exception leaves run_simulation.
UnexpectedError_propagates ==
    /\ pc \in LoopPcs
    /\ failed' = TRUE
    /\ pc' = "raised"
    /\ UNCHANGED <<config, environment, agent, lists, gen_num,
                   current_threshold, step_count_this_gen, is_reward,
                   should_continue, end_reason, all_generation_data,
                   generations_completed, interrupted, returned>>
    /\ UNCHANGED apiVars

\* An exception other than KeyboardInterrupt raised by a statement of the
\* loop: `except Exception`, then the finally block and the return.
UnexpectedError ==
    /\ pc \in LoopPcs
    /\ failed' = TRUE
    /\ Return
    /\ UNCHANGED <<config, environment, agent, lists, gen_num,
                   current_threshold, step_count_this_gen, is_reward,
                   should_continue, end_reason, all_generation_data,
                   generations_completed, interrupted>>
    /\ UNCHANGED apiVars

Next ==
    \/ StartGeneration
    \/ LoopExhausted
    \/ EnvStep
    \/ RecordStep
    \/ Decide
    \/ IfGiveUp
    \/ IfMaxSteps
    \/ PostGeneration
    \/ Learn
    \/ KeyboardInterrupt
    \/ UnexpectedError

Spec == Init /\ [][Next]_vars

\* One statement of run_simulation executed with no interrupt and no fault.
Statement ==
    \/ StartGeneration
    \/ LoopExhausted
    \/ EnvStep
    \/ RecordStep
    \/ Decide
    \/ IfGiveUp
    \/ IfMaxSteps
    \/ PostGeneration
    \/ Learn

\* run_simulation with no interrupt and no fault, on a thread that is never
\* stalled for ever: while it has not returned, its next statement is
\* eventually executed.
SpecFair == Init /\ [][Statement]_vars /\ WF_vars(Statement)

\* ------------------------------------------- run_simulation, any config
\* SpecAnyConfig: run_simulation on whatever main.py can pass on (its
\* options are parsed as int and float and not checked): counts and
\* thresholds from 0, probabilities from -1/RPDen to (RPDen+1)/RPDen.
AnyConfigs ==
    { [num_generations |-> n, reward_probability |-> p, agent_type |-> t,
       agent_initial_threshold |-> th, learning_rate |-> lr,
       max_steps_per_generation |-> m] :
        n \in 0..MaxGens, p \in (-1)..(RPDen + 1),
        t \in {"SimpleAgent", "LearningAgent"},
        th \in 0..MaxThreshold, lr \in 0..LRDen, m \in 0..MaxSteps }

\* `return [], {}`: what run_simulation returns when a constructor raised.
InitFailed == [returned |-> TRUE, data |-> <<>>, stats |-> <<>>]

\* run_simulation after its initialization block: as Init when both
\* constructors succeeded; returned already when one raised ValueError (the
\* environment is constructed first, an object never constructed is <<>>).
InitAny ==
    /\ config \in AnyConfigs
    /\ config.agent_type = "SimpleAgent" => config.learning_rate = 0
    /\ IF ProbabilityInRange(config.reward_probability)
            /\ ThresholdValid(config.agent_initial_threshold)
       THEN /\ environment = HarshEnvironment(config.reward_probability)
            /\ LET a == NewAgent(config, <<>>)
               IN  agent = a.self /\ lists = a.heap
            /\ pc = "for"
            /\ returned = NotReturned
       ELSE /\ environment =
                  IF ProbabilityInRange(config.reward_probability)
                  THEN HarshEnvironment(config.reward_probability)
                  ELSE <<>>
            /\ agent = <<>>
            /\ lists = <<>>
            /\ pc = "done"
            /\ returned = InitFailed
    /\ gen_num = 0
    /\ current_threshold = 0
    /\ step_count_this_gen = 0
    /\ is_reward = FALSE
    /\ should_continue = TRUE
    /\ end_reason = "unset"
    /\ all_generation_data = <<>>
    /\ generations_completed = 0
    /\ interrupted = FALSE
    /\ failed = FALSE
    /\ op = "none" /\ prev_op = "none" /\ arg = 0 /\ before = <<>>

SpecAnyConfig == InitAny /\ [][Next]_vars

\* ------------------------------------------------- the agent as a unit
\* SpecAgent: one agent, constructed with any positive threshold and, for a
\* LearningAgent, any rate from -1/LRDen to (LRDen+1)/LRDen (the constructor
\* does not check the rate), then any sequence of calls of its methods.
\* `before` is the agent (log contents included) before the last call.

InitAgent ==
    /\ \E th \in 1..MaxThreshold :
         \E lr \in (-1)..(LRDen + 1) :
           \E t \in {"SimpleAgent", "LearningAgent"} :
              /\ t = "SimpleAgent" => lr = 0
              /\ ThresholdValid(th)
              /\ LET a == IF t = "LearningAgent"
                          THEN LearningAgent(th, lr, <<>>)
                          ELSE SimpleAgent(th, <<>>)
                 IN  agent = a.self /\ lists = a.heap
    /\ pc = "agent_api"
    /\ config = <<>>
    /\ environment = <<>>
    /\ gen_num = 0
    /\ current_threshold = 0
    /\ step_count_this_gen = 0
    /\ is_reward = FALSE
    /\ should_continue = TRUE
    /\ end_reason = "unset"
    /\ all_generation_data = <<>>
    /\ generations_completed = 0
    /\ interrupted = FALSE
    /\ failed = FALSE
    /\ returned = NotReturned
    /\ op = "init" /\ prev_op = "none" /\ arg = 0 /\ before = <<>>

\* What every call records about itself.
Called(name, argument) ==
    /\ op' = name
    /\ prev_op' = op
    /\ arg' = argument
    /\ before' = View(agent, lists)

\* agent.reset()
CallReset ==
    /\ pc = "agent_api"
    /\ LET r == reset(agent, lists)
       IN  /\ agent' = r.self
           /\ lists' = Collect(r.heap, {r.self.decision_log})
    /\ Called("reset", 0)
    /\ UNCHANGED <<pc, should_continue>>
    /\ UNCHANGED driverVars

\* agent.record_step(b)
CallRecordStep ==
    /\ pc = "agent_api"
    /\ Len(lists[agent.decision_log]) < MaxLogLen
    /\ \E b \in BOOLEAN :
        /\ LET r == record_step(agent, lists, b)
           IN  agent' = r.self /\ lists' = r.heap
        /\ Called("record_step", b)
    /\ UNCHANGED <<pc, should_continue>>
    /\ UNCHANGED driverVars

\* agent.decide_to_continue()
CallDecide ==
    /\ pc = "agent_api"
    /\ Len(lists[agent.decision_log]) < MaxLogLen
    /\ LET r == decide_to_continue(agent, lists)
       IN  agent' = r.self /\ lists' = r.heap /\ should_continue' = r.ret
    /\ Called("decide_to_continue", 0)
    /\ UNCHANGED <<pc>>
    /\ UNCHANGED driverVars

\* agent.learn_from_history(l), a method of the LearningAgent only
CallLearn ==
    /\ pc = "agent_api"
    /\ IsLearningAgent(agent)
    /\ Len(agent.historical_lifespans) < MaxHistory
    /\ \E l \in 0..MaxLifespan :
        /\ agent' = learn_from_history(agent, l)
        /\ Called("learn_from_history", l)
    /\ UNCHANGED <<pc, lists, should_continue>>
    /\ UNCHANGED driverVars

NextAgent ==
    \/ CallReset
    \/ CallRecordStep
    \/ CallDecide
    \/ CallLearn

SpecAgent == InitAgent /\ [][NextAgent]_vars

\* ================================================================= claims
\* The records produced so far.
Records == {all_generation_data[i] : i \in 1..Len(all_generation_data)}

\* The contents of the decision log a record's summary refers to.
LogOf(rec) == lists[rec.summary.decision_log]

\* A "DECISION: Give Up" line is in the list.
HasGiveUp(l) == \E i \in 1..Len(l) : l[i].event = "GIVE_UP"

LifespanSum(data) ==
    Sum([i \in 1..Len(data) |-> data[i].summary.lifespan])

OutcomeSum(data) ==
    Sum([i \in 1..Len(data) |->
            data[i].summary.total_rewards + data[i].summary.total_punishments])

AllPunishmentsFixed ==
    config.agent_type = "SimpleAgent" /\ config.reward_probability = 0

\* C1 as stated: with reward_probability = 0 and a SimpleAgent of threshold
\* T, every generation has lifespan T and ends with 'Agent Threshold
\* Reached', whatever max_steps_per_generation is.
C1_Original ==
    AllPunishmentsFixed =>
        \A rec \in Records :
            /\ rec.summary.lifespan = config.agent_initial_threshold
            /\ rec.end_reason = "Agent Threshold Reached"

\* C1 amended: with reward_probability = 0 and a SimpleAgent of threshold T,
\* provided T <= max_steps_per_generation, every generation has lifespan T
\* and ends with 'Agent Threshold Reached'.
C1_AllPunishmentsGiveUpAtThreshold ==
    (AllPunishmentsFixed
        /\ config.agent_initial_threshold <= config.max_steps_per_generation)
    => \A rec \in Records :
            /\ rec.summary.lifespan = config.agent_initial_threshold
            /\ rec.end_reason = "Agent Threshold Reached"

\* C1 witness: a second all-punishment generation of a SimpleAgent has ended
\* at its threshold of at least 2.
C1_Witness ==
    /\ AllPunishmentsFixed
    /\ config.agent_initial_threshold >= 2
    /\ Len(all_generation_data) >= 2
    /\ all_generation_data[2].summary.lifespan = config.agent_initial_threshold
    /\ all_generation_data[2].end_reason = "Agent Threshold Reached"

\* C2: with reward_probability = 1 (every step a reward), for either agent
\* class, no decide_to_continue() returns False, no log holds a Give Up
\* line, and every generation ends with 'Max Steps Reached' and a lifespan
\* equal to max_steps_per_generation.
C2_AllRewardsRunToMaxSteps ==
    config.reward_probability = RPDen =>
        /\ should_continue
        /\ \A id \in DOMAIN lists : ~HasGiveUp(lists[id])
        /\ \A rec \in Records :
            /\ rec.end_reason = "Max Steps Reached"
            /\ rec.summary.lifespan = config.max_steps_per_generation

\* C2 witness: a LearningAgent run of all rewards has produced two records
\* of max_steps_per_generation >= 2 steps each.
C2_Witness ==
    /\ config.reward_probability = RPDen
    /\ config.agent_type = "LearningAgent"
    /\ config.max_steps_per_generation >= 2
    /\ Len(all_generation_data) >= 2
    /\ all_generation_data[2].summary.lifespan
          = config.max_steps_per_generation

\* C3: a give-up decided on the step whose count equals
\* max_steps_per_generation is recorded as 'Agent Threshold Reached', and the
\* max-steps test is reached only after a decision to continue.
C3_TieBreakGiveUpWins ==
    /\ pc = "if_max_steps" => should_continue
    /\ (pc = "post" /\ ~should_continue)
          => end_reason = "Agent Threshold Reached"
    /\ \A rec \in Records :
          (rec.summary.lifespan = config.max_steps_per_generation
              /\ HasGiveUp(LogOf(rec)))
          => rec.end_reason = "Agent Threshold Reached"

\* C3 witness: a record whose agent gave up on the very step that reached
\* max_steps_per_generation.
C3_Witness ==
    \E rec \in Records :
        /\ rec.summary.lifespan = config.max_steps_per_generation
        /\ HasGiveUp(LogOf(rec))
        /\ rec.end_reason = "Agent Threshold Reached"

\* C4: a record whose lifespan is below max_steps_per_generation has
\* end_reason 'Agent Threshold Reached'.
C4_EarlyEndIsGiveUp ==
    \A rec \in Records :
        rec.summary.lifespan < config.max_steps_per_generation
            => rec.end_reason = "Agent Threshold Reached"

\* C4 witness: a generation that ended before max_steps_per_generation.
C4_Witness ==
    \E rec \in Records :
        /\ rec.summary.lifespan < config.max_steps_per_generation
        /\ rec.end_reason = "Agent Threshold Reached"

\* C5: when run_simulation returns after all num_generations generations,
\* the rewards and punishments of the records add up to their lifespans, and
\* the returned total_steps is that sum.
C5_AggregateStepCount ==
    (returned.returned /\ Len(returned.data) = config.num_generations)
    => /\ OutcomeSum(returned.data) = LifespanSum(returned.data)
       /\ returned.stats.total_steps = LifespanSum(returned.data)

\* C5 witness: a complete, uninterrupted run of two generations that saw
\* rewards as well as punishments.
C5_Witness ==
    /\ returned.returned
    /\ ~interrupted /\ ~failed
    /\ Len(returned.data) = config.num_generations
    /\ config.num_generations = 2
    /\ returned.stats.total_rewards > 0
    /\ returned.stats.total_punishments > 0
    /\ returned.stats.total_steps = LifespanSum(returned.data)

\* ------------------------------------------- claims about the agent alone
\* r is an integer nearest to n / d (d > 0) and, on a tie, the even one.
NearestTiesToEven(r, n, d) ==
    LET twice == 2 * (n - r * d)
    IN  /\ twice <= d
        /\ -twice <= d
        /\ (twice = d \/ -twice = d) => r % 2 = 0

\* r is an integer nearest to n / d (d > 0) and, on a tie, the one farther
\* from zero.
NearestTiesAway(r, n, d) ==
    LET twice == 2 * (n - r * d)
    IN  /\ twice <= d
        /\ -twice <= d
        /\ twice = d => n < 0
        /\ -twice = d => n > 0

\* The integers a rounded average or interpolation can be, within the bounds.
Rounded ==
    (-(4 * (MaxLifespan + MaxThreshold)))..(4 * (MaxLifespan + MaxThreshold))

Learnt == pc = "agent_api" /\ op = "learn_from_history"

\* The weighted sum learn_from_history rounds, times LRDen.
Weighted(threshold, target) ==
    threshold * (LRDen - agent.learning_rate) + target * agent.learning_rate

\* C6: give_up_threshold is an integer >= 1 after construction and after any
\* sequence of reset, record_step, decide_to_continue and learn_from_history
\* calls, for any lifespan argument and any learning rate.
C6_ThresholdPositive ==
    pc = "agent_api" =>
        agent.give_up_threshold \in Int /\ agent.give_up_threshold >= 1

\* C6 witness: a learning update whose interpolation fell below 1 left the
\* threshold at 1.
C6_Witness ==
    /\ Learnt
    /\ before.give_up_threshold >= 2
    /\ 2 * Weighted(before.give_up_threshold,
                    TargetThreshold(before, agent.historical_lifespans))
          <= LRDen
    /\ agent.give_up_threshold = 1

\* C7: learn_from_history with learning_rate = 0 appends the lifespan and
\* leaves give_up_threshold unchanged; with learning_rate = 1 it sets
\* give_up_threshold to max(1, round(mean of the history, seed and new
\* lifespan included)).
C7_LearningRateExtremes ==
    Learnt =>
        LET h == agent.historical_lifespans
        IN  /\ h = Append(before.historical_lifespans, arg)
            /\ agent.learning_rate = 0
                  => agent.give_up_threshold = before.give_up_threshold
            /\ agent.learning_rate = LRDen
                  => \E t \in Rounded :
                        /\ NearestTiesToEven(t, Sum(h), Len(h))
                        /\ agent.give_up_threshold = Max(1, t)

\* C7 witness: an update at learning_rate = 1 that moved the threshold to a
\* different target.
C7_Witness ==
    /\ Learnt
    /\ agent.learning_rate = LRDen
    /\ agent.give_up_threshold # before.give_up_threshold
    /\ Len(agent.historical_lifespans) >= 3

\* The threshold and history after learn_from_history, with `nearest` as the
\* rounding of both the average and the interpolation.
LearnsWith(nearest(_, _, _)) ==
    LET h == agent.historical_lifespans
    IN  /\ h = Append(before.historical_lifespans, arg)
        /\ \E t \in Rounded :
            /\ nearest(t, Sum(h), Len(h))
            /\ \E new \in Rounded :
                /\ nearest(new,
                           Weighted(before.give_up_threshold, Max(1, t)),
                           LRDen)
                /\ agent.give_up_threshold = Max(1, new)

\* C8 as stated: learn_from_history appends the lifespan, averages the whole
\* history, and both roundings are round-half-away-from-zero (checked for
\* the documented rates, 0 <= learning_rate <= 1).
C8_Original ==
    (Learnt /\ agent.learning_rate \in 0..LRDen)
        => LearnsWith(NearestTiesAway)

\* C8 amended: learn_from_history appends the lifespan, averages the whole
\* history (seed included, no window), target = max(1, round(avg)),
\* give_up_threshold = max(1, round(threshold*(1-rate) + target*rate)), both
\* roundings being Python's round: round-half-to-even (2.5 gives 2).
C8_LearnRoundsHalfToEven == Learnt => LearnsWith(NearestTiesToEven)

\* C8 witness: an update whose average is an exact tie that the two rounding
\* rules resolve differently.
C8_Witness ==
    /\ Learnt
    /\ agent.learning_rate \in 1..LRDen
    /\ LET h == agent.historical_lifespans
       IN  /\ 2 * Sum(h) % Len(h) = 0
           /\ Sum(h) % Len(h) # 0
           /\ Round(Sum(h), Len(h)) # RoundHalfAway(Sum(h), Len(h))
           /\ Round(Sum(h), Len(h)) >= 1

Zeroed(a) ==
    /\ a.consecutive_punishments = 0
    /\ a.total_rewards_received = 0
    /\ a.total_punishments_received = 0
    /\ a.steps_lived = 0

\* C9: LearningAgent.reset() zeroes the four counters and empties the
\* decision log, and leaves give_up_threshold and historical_lifespans as
\* they were before the call.
C9_LearningResetKeepsLearning ==
    (pc = "agent_api" /\ op = "reset" /\ IsLearningAgent(agent)) =>
        /\ Zeroed(agent)
        /\ lists[agent.decision_log] = <<>>
        /\ agent.give_up_threshold = before.give_up_threshold
        /\ agent.historical_lifespans = before.historical_lifespans
        /\ agent.learning_rate = before.learning_rate

\* C9 witness: a reset of a LearningAgent that had lived some steps and
\* whose learnt threshold differs from its initial one.
C9_Witness ==
    /\ pc = "agent_api" /\ op = "reset" /\ IsLearningAgent(agent)
    /\ before.steps_lived > 0
    /\ before.decision_log # <<>>
    /\ Len(agent.historical_lifespans) >= 2
    /\ agent.give_up_threshold # agent.historical_lifespans[1]

\* C10: SimpleAgent.reset() zeroes the four counters, empties the decision
\* log and leaves give_up_threshold unchanged; a second reset() right after
\* the first yields the same agent state.
C10_SimpleResetIdempotent ==
    (pc = "agent_api" /\ op = "reset" /\ ~IsLearningAgent(agent)) =>
        /\ Zeroed(agent)
        /\ lists[agent.decision_log] = <<>>
        /\ agent.give_up_threshold = before.give_up_threshold
        /\ prev_op = "reset" => View(agent, lists) = before
        /\ LET again == SimpleAgent_reset(agent, lists)
           IN  View(again.self, again.heap) = View(agent, lists)

\* C10 witness: a SimpleAgent reset twice in a row.
C10_Witness ==
    /\ pc = "agent_api" /\ op = "reset" /\ prev_op = "reset"
    /\ ~IsLearningAgent(agent)
    /\ Zeroed(agent)
    /\ View(agent, lists) = before

\* C20: decide_to_continue() returns False exactly when
\* consecutive_punishments >= give_up_threshold at the call; it changes no
\* counter, no threshold and no history; it appends one 'Give Up' line to
\* decision_log when it returns False and leaves the log as it was when it
\* returns True.
C20_DecideIffThresholdReached ==
    (pc = "agent_api" /\ op = "decide_to_continue") =>
        LET log == lists[agent.decision_log]
            gave_up == ~should_continue
        IN  /\ gave_up <=>
                  before.consecutive_punishments >= before.give_up_threshold
            /\ [View(agent, lists) EXCEPT !.decision_log = <<>>]
                  = [before EXCEPT !.decision_log = <<>>]
            /\ gave_up =>
                  /\ Len(log) = Len(before.decision_log) + 1
                  /\ SubSeq(log, 1, Len(log) - 1) = before.decision_log
                  /\ log[Len(log)].event = "GIVE_UP"
            /\ ~gave_up => log = before.decision_log

\* C20 witness: a call that gave up after punishments were recorded, the
\* streak being exactly at the threshold.
C20_Witness ==
    /\ pc = "agent_api" /\ op = "decide_to_continue"
    /\ ~should_continue
    /\ agent.consecutive_punishments = agent.give_up_threshold
    /\ before.decision_log # <<>>
    /\ Len(lists[agent.decision_log]) = Len(before.decision_log) + 1

\* C21: record_step(is_reward) adds 1 to steps_lived and one line to
\* decision_log; on a reward it zeroes consecutive_punishments and adds 1 to
\* total_rewards_received, total_punishments_received staying; on a
\* punishment it adds 1 to consecutive_punishments and to
\* total_punishments_received, total_rewards_received staying; threshold,
\* rate and history stay; and in every state of the agent
\* total_rewards_received + total_punishments_received = steps_lived.
C21_RecordStepCounts ==
    /\ agent.total_rewards_received + agent.total_punishments_received
          = agent.steps_lived
    /\ (pc = "agent_api" /\ op = "record_step") =>
          LET log == lists[agent.decision_log]
          IN  /\ agent.steps_lived = before.steps_lived + 1
              /\ Len(log) = Len(before.decision_log) + 1
              /\ SubSeq(log, 1, Len(log) - 1) = before.decision_log
              /\ log[Len(log)].event = IF arg THEN "REWARD" ELSE "PUNISHMENT"
              /\ log[Len(log)].step = agent.steps_lived
              /\ arg =>
                    /\ agent.consecutive_punishments = 0
                    /\ agent.total_rewards_received
                          = before.total_rewards_received + 1
                    /\ agent.total_punishments_received
                          = before.total_punishments_received
              /\ ~arg =>
                    /\ agent.consecutive_punishments
                          = before.consecutive_punishments + 1
                    /\ agent.total_punishments_received
                          = before.total_punishments_received + 1
                    /\ agent.total_rewards_received
                          = before.total_rewards_received
              /\ agent.give_up_threshold = before.give_up_threshold
              /\ agent.learning_rate = before.learning_rate
              /\ agent.historical_lifespans = before.historical_lifespans

\* C21 witness: a reward recorded right after a punishment, which cleared a
\* streak of one.
C21_Witness ==
    /\ pc = "agent_api" /\ op = "record_step" /\ arg = TRUE
    /\ before.consecutive_punishments = 1
    /\ agent.consecutive_punishments = 0
    /\ agent.total_rewards_received = 1
    /\ agent.total_punishments_received = 1
    /\ agent.steps_lived = 2

\* ------------------------------------ claims about a run (continued)
FixedRun == config.agent_type = "SimpleAgent"

LearningRun == config.agent_type = "LearningAgent"

\* C11: in a SimpleAgent run give_up_threshold is the configured
\* agent_initial_threshold in every state, and so is threshold_used in every
\* record.
C11_FixedThresholdImmutable ==
    FixedRun =>
        /\ agent.give_up_threshold = config.agent_initial_threshold
        /\ current_threshold \in {0, config.agent_initial_threshold}
        /\ \A rec \in Records :
              rec.threshold_used = config.agent_initial_threshold

\* C11 witness: a SimpleAgent run that reset twice, stepped through rewards
\* and punishments, decided, and produced two records.
C11_Witness ==
    /\ FixedRun
    /\ Len(all_generation_data) = 2
    /\ environment.total_rewards_given > 0
    /\ environment.total_punishments_given > 0
    /\ all_generation_data[2].threshold_used = config.agent_initial_threshold

\* The program points of a generation whose record is not appended yet.
InGeneration ==
    pc \in {"env_step", "record_step", "decide", "if_give_up",
            "if_max_steps", "post"}

\* C12: in a LearningAgent run historical_lifespans is the initial threshold
\* followed by the lifespans of the generations learnt from, one per
\* generation: at every generation boundary (top of the for loop) all
\* records have been learnt from, inside a generation every earlier record
\* has, and between the record and the learning call all but the last.  In
\* a SimpleAgent run there is no history.
C12_LearnsOncePerGeneration ==
    /\ FixedRun => agent.historical_lifespans = <<>>
    /\ LearningRun =>
        LET h == agent.historical_lifespans
            n == Len(all_generation_data)
        IN  /\ Len(h) >= 1
            /\ h[1] = config.agent_initial_threshold
            /\ \A i \in 1..(Len(h) - 1) :
                  /\ i <= n
                  /\ h[i + 1] = all_generation_data[i].summary.lifespan
            /\ pc = "for" => Len(h) = 1 + n
            /\ InGeneration => Len(h) = 1 + n /\ n = gen_num - 1
            /\ pc = "learn" => Len(h) = n /\ n = gen_num
            /\ (pc = "done" /\ ~interrupted /\ ~failed) => Len(h) = 1 + n

\* C12 witness: the boundary after the second generation of a LearningAgent
\* run, the two lifespans differing.
C12_Witness ==
    /\ LearningRun
    /\ pc = "for"
    /\ Len(all_generation_data) = 2
    /\ Len(agent.historical_lifespans) = 3
    /\ agent.historical_lifespans[2] # agent.historical_lifespans[3]
    /\ agent.historical_lifespans[3]
          = all_generation_data[2].summary.lifespan

\* Every Give Up line of the list names the threshold t.
GiveUpsAgainst(l, t) ==
    \A i \in 1..Len(l) : l[i].event = "GIVE_UP" => l[i].threshold = t

\* The threshold learn_from_history leaves when called with the lifespan of
\* record i by an agent holding that record's threshold and the history up
\* to it.
ThresholdLearntFrom(i) ==
    learn_from_history(
        [agent EXCEPT
            !.give_up_threshold = all_generation_data[i].threshold_used,
            !.historical_lifespans = SubSeq(agent.historical_lifespans, 1, i)],
        all_generation_data[i].summary.lifespan).give_up_threshold

\* C13: threshold_used is the threshold read after reset() and before the
\* first step; the agent's threshold stays at it during the generation's
\* steps, every give-up decision of the generation was taken against it,
\* and in a LearningAgent run the threshold_used of generation N+1 is the
\* threshold the learning update after generation N produced (the first
\* one being the configured threshold).
C13_ThresholdUsedIsThresholdOfGeneration ==
    /\ InGeneration =>
          /\ agent.give_up_threshold = current_threshold
          /\ GiveUpsAgainst(lists[agent.decision_log], current_threshold)
    /\ \A rec \in Records : GiveUpsAgainst(LogOf(rec), rec.threshold_used)
    /\ \A i \in 1..Len(all_generation_data) :
          all_generation_data[i].threshold_used =
              IF i = 1 THEN config.agent_initial_threshold
              ELSE IF LearningRun THEN ThresholdLearntFrom(i - 1)
              ELSE all_generation_data[i - 1].threshold_used

\* C13 witness: a LearningAgent gave up its second generation against a
\* threshold that the update after the first generation had changed.
C13_Witness ==
    /\ LearningRun
    /\ Len(all_generation_data) = 2
    /\ all_generation_data[2].threshold_used
          # all_generation_data[1].threshold_used
    /\ HasGiveUp(LogOf(all_generation_data[2]))
    /\ all_generation_data[2].threshold_used = ThresholdLearntFrom(1)

\* The records and the contents of their decision logs stay as they are.
RecordsKept ==
    /\ all_generation_data' = all_generation_data
    /\ \A i \in 1..Len(all_generation_data) :
          LET id == all_generation_data[i].summary.decision_log
          IN  id \in DOMAIN lists' /\ lists'[id] = lists[id]

\* C14: the step on which a KeyboardInterrupt arrives in the generation loop
\* makes run_simulation return, and what it returns is the list of the
\* records appended before, in order and unmodified.
C14_InterruptReturnsRecords ==
    [][(~interrupted /\ interrupted') =>
            /\ pc' = "done"
            /\ returned'.returned
            /\ returned'.data = all_generation_data
            /\ RecordsKept]_vars

\* C14 witness: an interrupt in the middle of the second generation returned
\* the record of the first.
C14_Witness ==
    /\ interrupted
    /\ returned.returned
    /\ Len(returned.data) = 1
    /\ gen_num = 2
    /\ step_count_this_gen >= 1
    /\ returned.data[1].generation = 1

\* C15 as stated: an interrupt takes effect at a generation boundary only:
\* the generation that had started has its record, and the returned
\* total_steps is the sum of the lifespans of the returned records.
C15_Original ==
    (interrupted /\ returned.returned) =>
        /\ gen_num = Len(returned.data)
        /\ returned.stats.total_steps = LifespanSum(returned.data)

\* C16: an exception other than KeyboardInterrupt raised in the loop does
\* not leave run_simulation: the function has returned the records of the
\* generations completed before it and the environment statistics, and no
\* further step or generation runs.
C16_FailureReturnsPartialResults ==
    failed =>
        /\ pc = "done"
        /\ returned.returned
        /\ returned.data = all_generation_data
        /\ Len(returned.data) = generations_completed
        /\ returned.stats = get_stats(environment)
        /\ ~ENABLED Next

\* C16 witness: a failure in the middle of the second generation, the record
\* of the first returned with the statistics of all the steps taken.
C16_Witness ==
    /\ failed
    /\ returned.returned
    /\ Len(returned.data) = 1
    /\ gen_num = 2
    /\ step_count_this_gen >= 1
    /\ returned.stats.total_steps
          = returned.data[1].summary.lifespan + step_count_this_gen

\* The environment.step() calls made so far: the lifespans of the recorded
\* generations plus the steps of the generation that has no record yet.
StepCalls ==
    LifespanSum(all_generation_data)
        + (IF gen_num > Len(all_generation_data)
           THEN step_count_this_gen ELSE 0)

OneStepCounted ==
    /\ environment'.steps_taken = environment.steps_taken + 1
    /\ \/ /\ environment'.total_rewards_given
                = environment.total_rewards_given + 1
          /\ environment'.total_punishments_given
                = environment.total_punishments_given
       \/ /\ environment'.total_rewards_given
                = environment.total_rewards_given
          /\ environment'.total_punishments_given
                = environment.total_punishments_given + 1

\* C22: total_rewards_given + total_punishments_given = steps_taken in
\* every state of a run; the step of the run that calls environment.step()
\* adds 1 to steps_taken and to exactly one of the two other counters, and
\* every other step of the run (the start of a generation included) leaves
\* the three counters and the configured probability as they are, so the
\* counters never decrease and are never reset.
C22_EnvironmentCounters ==
    /\ [](environment.total_rewards_given
              + environment.total_punishments_given
            = environment.steps_taken)
    /\ [][IF pc = "env_step" /\ pc' = "record_step"
          THEN OneStepCounted
               /\ environment'.reward_probability
                     = environment.reward_probability
          ELSE environment' = environment]_vars

\* C22 witness: the second generation of a run is under way and the
\* counters hold the steps of the first generation as well, rewards and
\* punishments among them.
C22_Witness ==
    /\ gen_num = 2
    /\ pc = "record_step"
    /\ environment.steps_taken
          = all_generation_data[1].summary.lifespan + step_count_this_gen
    /\ environment.total_rewards_given > 0
    /\ environment.total_punishments_given > 0

\* --------------------------------------------------- generation order
\* C23: at every point of a run the i-th record has generation = i (the
\* indices are 1..k, no gap, no duplicate), k is at most num_generations,
\* the generation under way is the one after the last record, and a run
\* that returns with no interrupt and no failure returns exactly
\* num_generations records.
C23_GenerationsInOrder ==
    LET k == Len(all_generation_data)
    IN  /\ \A i \in 1..k : all_generation_data[i].generation = i
        /\ k <= config.num_generations
        /\ generations_completed = k
        /\ gen_num = IF InGeneration THEN k + 1
                     ELSE IF pc \in {"for", "learn"} THEN k
                     ELSE gen_num
        /\ gen_num \in {k, k + 1}
        /\ (pc = "done" /\ ~interrupted /\ ~failed) =>
              /\ Len(returned.data) = config.num_generations
              /\ \A i \in 1..config.num_generations :
                    returned.data[i].generation = i

\* C23 witness: a run of two generations returned normally with records 1
\* and 2.
C23_Witness ==
    /\ pc = "done" /\ ~interrupted /\ ~failed
    /\ config.num_generations = 2
    /\ Len(returned.data) = 2
    /\ returned.data[1].generation = 1
    /\ returned.data[2].generation = 2

\* ------------------------------------------------- records stay as made
\* Every record there is keeps its place, its fields, the list its summary
\* refers to and the contents of that list.
RecordsUntouched ==
    /\ Len(all_generation_data') >= Len(all_generation_data)
    /\ \A i \in 1..Len(all_generation_data) :
          LET id == all_generation_data[i].summary.decision_log
          IN  /\ all_generation_data'[i] = all_generation_data[i]
              /\ id \in DOMAIN lists'
              /\ lists'[id] = lists[id]

\* C24: a record is immutable once produced: no step of the run
\* (agent.reset(), record_step and decide_to_continue of a later
\* generation, learn_from_history, the return) changes a field of a record
\* already in the list or the decision log its summary holds.
C24_RecordsImmutable == [][RecordsUntouched]_vars

\* C24 witness: the second generation has logged steps in a list of its own
\* while the first record still holds its complete log.
C24_Witness ==
    /\ gen_num = 2
    /\ pc = "decide"
    /\ Len(all_generation_data) = 1
    /\ agent.decision_log # all_generation_data[1].summary.decision_log
    /\ Len(lists[agent.decision_log]) = 2
    /\ Len(LogOf(all_generation_data[1]))
          >= all_generation_data[1].summary.lifespan
    /\ all_generation_data[1].summary.lifespan >= 1

\* ------------------------------------------------- bounded generations
\* C25: whatever the outcomes, the step loop of a generation takes at most
\* max_steps_per_generation steps, so every record has
\* 1 <= lifespan <= max_steps_per_generation, the environment takes at most
\* num_generations * max_steps_per_generation steps in the run, and a run
\* that nothing cuts short returns.
C25_BoundedGenerations ==
    /\ [](/\ step_count_this_gen <= config.max_steps_per_generation
          /\ \A rec \in Records :
                /\ 1 <= rec.summary.lifespan
                /\ rec.summary.lifespan <= config.max_steps_per_generation
          /\ environment.steps_taken
                <= config.num_generations * config.max_steps_per_generation)
    /\ <>(pc = "done" /\ returned.returned)

\* C25 witness: a run under a threshold larger than the step cap, fed
\* punishments only, returned normally after num_generations *
\* max_steps_per_generation steps, each generation stopped by the cap.
C25_Witness ==
    /\ pc = "done"
    /\ config.reward_probability = 0
    /\ config.agent_initial_threshold > config.max_steps_per_generation
    /\ config.num_generations = 2
    /\ environment.steps_taken
          = config.num_generations * config.max_steps_per_generation
    /\ \A rec \in Records : rec.end_reason = "Max Steps Reached"

\* ------------------------------------------- end reason and final streak
\* C27: in every record end_reason is 'Agent Threshold Reached' exactly when
\* final_consecutive_punishments equals threshold_used, and 'Max Steps
\* Reached' exactly when final_consecutive_punishments is below
\* threshold_used and the lifespan is max_steps_per_generation.
C27_EndReasonMatchesStreak ==
    \A rec \in Records :
        /\ rec.end_reason = "Agent Threshold Reached"
              <=> rec.summary.final_consecutive_punishments
                     = rec.threshold_used
        /\ rec.end_reason = "Max Steps Reached"
              <=> /\ rec.summary.final_consecutive_punishments
                        < rec.threshold_used
                  /\ rec.summary.lifespan = config.max_steps_per_generation

\* C27 witness: one generation given up on the very step that reached the
\* step cap, another stopped by the cap with a streak below the threshold.
C27_Witness ==
    /\ Len(all_generation_data) = 2
    /\ \E i, j \in 1..2 :
          /\ all_generation_data[i].end_reason = "Agent Threshold Reached"
          /\ all_generation_data[i].summary.lifespan
                = config.max_steps_per_generation
          /\ all_generation_data[j].end_reason = "Max Steps Reached"
          /\ all_generation_data[j].summary.final_consecutive_punishments >= 1

\* ------------------------------------------- the streak in a generation
\* The Give Up lines of the list: none, or one that is the last line.
GiveUpOnlyLast(l) ==
    \A i \in 1..Len(l) : l[i].event = "GIVE_UP" => i = Len(l)

\* C28: from reset() until the generation's record is produced the streak
\* never exceeds the threshold; it equals the threshold only from the
\* punishment that completed it to the give-up decided on that same step,
\* so a step is taken only under a streak below the threshold; and after a
\* give-up no step of that generation follows: the log has no line after a
\* Give Up line and the loop is left.
C28_StreakWithinThreshold ==
    /\ InGeneration =>
          LET log == lists[agent.decision_log]
          IN  /\ agent.consecutive_punishments <= agent.give_up_threshold
              /\ pc \in {"env_step", "record_step", "if_max_steps"} =>
                    /\ agent.consecutive_punishments < agent.give_up_threshold
                    /\ ~HasGiveUp(log)
              /\ agent.consecutive_punishments = agent.give_up_threshold =>
                    /\ pc \in {"decide", "if_give_up", "post"}
                    /\ pc # "decide" => ~should_continue /\ HasGiveUp(log)
                    /\ log # <<>>
                    /\ agent.steps_lived = step_count_this_gen
              /\ HasGiveUp(log) =>
                    /\ pc \in {"if_give_up", "post"}
                    /\ ~should_continue
                    /\ agent.consecutive_punishments = agent.give_up_threshold
              /\ GiveUpOnlyLast(log)
    /\ \A rec \in Records :
          /\ GiveUpOnlyLast(LogOf(rec))
          /\ rec.summary.final_consecutive_punishments <= rec.threshold_used

\* C28 witness: in the second generation the streak has just reached a
\* threshold of 2 on the third step, after a reward, and the agent has not
\* decided yet.
C28_Witness ==
    /\ gen_num = 2
    /\ pc = "decide"
    /\ agent.give_up_threshold = 2
    /\ agent.consecutive_punishments = 2
    /\ agent.steps_lived = 3
    /\ agent.total_rewards_received = 1

\* ---------------------------------------------------------- determinism
\* The outcomes a decision log says its generation was fed, in order
\* (TRUE for a reward).
IsStepEntry(e) == e.event \in {"REWARD", "PUNISHMENT"}

Outcomes(l) ==
    LET steps == SelectSeq(l, IsStepEntry)
    IN  [k \in 1..Len(steps) |-> steps[k].event = "REWARD"]

RewardsIn(o) == Sum([k \in 1..Len(o) |-> IF o[k] THEN 1 ELSE 0])

\* The outcomes fed to the recorded generations, one sequence each.
FedOutcomes ==
    [i \in 1..Len(all_generation_data) |->
        Outcomes(LogOf(all_generation_data[i]))]

\* The outcomes fed to the generation that has no record yet: those the
\* agent has logged, and the one the environment produced that the agent
\* has not been told.
FedToOpenGeneration ==
    IF gen_num > Len(all_generation_data)
    THEN Outcomes(lists[agent.decision_log])
            \o (IF step_count_this_gen = agent.steps_lived + 1
                THEN <<is_reward>> ELSE <<>>)
    ELSE <<>>

\* One generation as a function of the threshold t, the step cap m and the
\* outcomes o it was fed: each outcome is a step, streak[k] is the run of
\* punishments after the k-th, and the generation ends at the first step
\* that leaves the streak at t or more (give up) or is the m-th (step cap).
\* end_reason is "running" when o does not end it, "overrun" when o goes on
\* after its end.
PlayGeneration(t, m, o) ==
    LET n == Len(o)
        streak[k \in 0..n] ==
            IF k = 0 \/ o[k] THEN 0 ELSE streak[k - 1] + 1
        rewards == RewardsIn(o)
    IN  [lifespan |-> n,
         total_rewards |-> rewards,
         total_punishments |-> n - rewards,
         final_consecutive_punishments |-> streak[n],
         decision_log |->
             [k \in 1..n |->
                 IF o[k] THEN LogEntry("REWARD", k, 0, 0)
                 ELSE LogEntry("PUNISHMENT", k, streak[k], 0)]
             \o (IF streak[n] >= t
                 THEN <<LogEntry("GIVE_UP", n, streak[n], t)>>
                 ELSE <<>>),
         end_reason |->
             IF \E k \in 1..(n - 1) : streak[k] >= t \/ k >= m
             THEN "overrun"
             ELSE IF streak[n] >= t THEN "Agent Threshold Reached"
             ELSE IF n >= m THEN "Max Steps Reached"
             ELSE "running"]

\* The threshold of the generation that follows generations of lifespans
\* `lived`, the last of them run under threshold t: the configured one for
\* the first generation, t for a SimpleAgent, and for a LearningAgent what
\* learn_from_history makes of t, the rate and the history.
ThresholdAfter(cfg, t, lived) ==
    IF lived = <<>>
    THEN cfg.agent_initial_threshold
    ELSE IF cfg.agent_type = "LearningAgent"
    THEN learn_from_history(
            [give_up_threshold |-> t,
             learning_rate |-> cfg.learning_rate,
             historical_lifespans |->
                 <<cfg.agent_initial_threshold>>
                     \o SubSeq(lived, 1, Len(lived) - 1)],
            lived[Len(lived)]).give_up_threshold
    ELSE t

\* Record i as a function of the configuration, the outcomes fed to
\* generations 1..i and the threshold of generation i-1 (0 when i = 1).
PlayRecord(cfg, outs, i, t_before) ==
    LET t == ThresholdAfter(cfg, t_before,
                            [j \in 1..(i - 1) |-> Len(outs[j])])
    IN  [generation |-> i,
         summary |-> PlayGeneration(t, cfg.max_steps_per_generation, outs[i]),
         threshold_used |-> t]

\* Record i as the run produced it, with the contents of its log.
ObservedRecord(i) ==
    LET rec == all_generation_data[i]
    IN  [generation |-> rec.generation,
         summary |->
            [lifespan |-> rec.summary.lifespan,
             total_rewards |-> rec.summary.total_rewards,
             total_punishments |-> rec.summary.total_punishments,
             final_consecutive_punishments |->
                 rec.summary.final_consecutive_punishments,
             decision_log |-> LogOf(rec),
             end_reason |-> rec.end_reason],
         threshold_used |-> rec.threshold_used]

\* A state in which the list of records has just grown, or has been
\* returned by a run that nothing cut short.
RecordsSettled ==
    pc = "learn" \/ (pc = "done" /\ ~interrupted /\ ~failed)

\* C19: the records of a run (generation index, lifespan, totals, final
\* streak, decision log, end_reason, threshold_used) are a function of the
\* configuration and of the outcomes the run was fed: the first record of
\* the configuration and its outcomes, every later one of the
\* configuration, the outcomes and the threshold of the record before it
\* (checked for the whole list each time a record is appended and when
\* the run returns normally); and the environment counters are a function
\* of the outcomes fed so far, in every state.  So two runs with the same
\* configuration fed the same outcomes have the same records and counters.
C19_RecordsFunctionOfOutcomes ==
    \E outs \in {FedOutcomes}, open \in {FedToOpenGeneration} :
        /\ RecordsSettled =>
              \A i \in 1..Len(all_generation_data) :
                  ObservedRecord(i) =
                      PlayRecord(config, outs, i,
                          IF i = 1 THEN 0
                          ELSE all_generation_data[i - 1].threshold_used)
        /\ environment.steps_taken =
               Sum([i \in 1..Len(outs) |-> Len(outs[i])]) + Len(open)
        /\ environment.total_rewards_given =
               Sum([i \in 1..Len(outs) |-> RewardsIn(outs[i])])
                   + RewardsIn(open)
        /\ environment.total_punishments_given =
               environment.steps_taken - environment.total_rewards_given

\* C19 witness: a finished LearningAgent run of two generations, fed rewards
\* and punishments, one generation given up and one stopped by the step
\* cap, the second under a learnt threshold.
C19_Witness ==
    /\ pc = "done" /\ ~interrupted /\ ~failed
    /\ LearningRun
    /\ Len(all_generation_data) = 2
    /\ all_generation_data[1].threshold_used
          # all_generation_data[2].threshold_used
    /\ \E i, j \in 1..2 :
          /\ all_generation_data[i].end_reason = "Agent Threshold Reached"
          /\ all_generation_data[j].end_reason = "Max Steps Reached"
    /\ environment.total_rewards_given > 0
    /\ environment.total_punishments_given > 0
    /\ ObservedRecord(2) =
          PlayRecord(config, FedOutcomes, 2,
                     all_generation_data[1].threshold_used)

\* ------------------------------------------ claims about any config
\* A configuration outside the documented ranges.
InvalidConfig(cfg) ==
    \/ cfg.agent_initial_threshold <= 0
    \/ ~(0 <= cfg.reward_probability /\ cfg.reward_probability <= RPDen)
    \/ cfg.num_generations <= 0
    \/ cfg.max_steps_per_generation <= 0

\* C17 as stated: a configuration with a non-positive threshold, an
\* out-of-range probability, a non-positive num_generations or a
\* non-positive max_steps_per_generation is rejected by the constructors:
\* the run has failed there, no environment step is taken and no record is
\* produced.
C17_Original ==
    InvalidConfig(config) =>
        /\ pc = "done"
        /\ returned = InitFailed
        /\ all_generation_data = <<>>
        /\ step_count_this_gen = 0

\* The configurations a constructor rejects.
ProbabilityOutOfRange(cfg) ==
    cfg.reward_probability < 0 \/ cfg.reward_probability > RPDen

ThresholdNotPositive(cfg) == cfg.agent_initial_threshold <= 0

\* C26: with reward_probability outside [0,1] or agent_initial_threshold <= 0
\* run_simulation does not raise: it has returned an empty record list and
\* an empty statistics mapping, no generation was started, no environment
\* step was taken (the environment, when it could be constructed, has
\* counted none) and nothing more is executed.
C26_ConstructionFailureReturnsEmpty ==
    (ProbabilityOutOfRange(config) \/ ThresholdNotPositive(config)) =>
        /\ pc = "done"
        /\ returned.returned
        /\ returned.data = <<>>
        /\ returned.stats = <<>>
        /\ all_generation_data = <<>>
        /\ gen_num = 0
        /\ step_count_this_gen = 0
        /\ ~ProbabilityOutOfRange(config) => environment.steps_taken = 0
        /\ ~interrupted /\ ~failed
        /\ ~ENABLED Next

\* C26 witness: the environment was constructed, the agent's threshold of 0
\* was rejected, and the run returned empty-handed.
C26_Witness ==
    /\ config.agent_initial_threshold = 0
    /\ ~ProbabilityOutOfRange(config)
    /\ config.num_generations >= 1
    /\ config.max_steps_per_generation >= 1
    /\ pc = "done"
    /\ returned = InitFailed

\* ------------------------------------------------- lifespan lower bound
Min(a, b) == IF a <= b THEN a ELSE b

\* C29: every record has lifespan >= min(threshold_used,
\* max_steps_per_generation); a generation that ended with 'Agent Threshold
\* Reached' has lifespan >= threshold_used and the last threshold_used
\* steps its log tells of were all punishments.
C29_LifespanLowerBound ==
    \A rec \in Records :
        /\ rec.summary.lifespan
              >= Min(rec.threshold_used, config.max_steps_per_generation)
        /\ rec.end_reason = "Agent Threshold Reached" =>
              LET o == Outcomes(LogOf(rec))
                  t == rec.threshold_used
              IN  /\ rec.summary.lifespan >= t
                  /\ Len(o) = rec.summary.lifespan
                  /\ \A k \in (Len(o) - t + 1)..Len(o) : ~o[k]

\* C29 witness: a generation given up under a threshold of 2 after three
\* steps, a reward and then two punishments.
C29_Witness ==
    \E rec \in Records :
        /\ rec.end_reason = "Agent Threshold Reached"
        /\ rec.threshold_used = 2
        /\ rec.summary.lifespan = 3
        /\ Outcomes(LogOf(rec)) = <<TRUE, FALSE, FALSE>>

\* ------------------------------------------- the learnt threshold's range
\* The learning call of a LearningAgent run has just been made.
LearningUpdate == LearningRun /\ pc = "learn" /\ pc' = "for"

\* C30: in a LearningAgent run (learning_rate in [0,1],
\* max_steps_per_generation >= 1) every learning update leaves the threshold
\* between the threshold before it and the target, max(1, round(mean of
\* the history with the new lifespan)), both included; and the threshold
\* never exceeds max(agent_initial_threshold, max_steps_per_generation), in
\* the agent or in a record.
C30_LearntThresholdBounded ==
    /\ [](LearningRun =>
            /\ agent.give_up_threshold
                  <= Max(config.agent_initial_threshold,
                         config.max_steps_per_generation)
            /\ \A rec \in Records :
                  rec.threshold_used
                      <= Max(config.agent_initial_threshold,
                             config.max_steps_per_generation))
    /\ [][LearningUpdate =>
            \E t \in Rounded :
                /\ NearestTiesToEven(t, Sum(agent'.historical_lifespans),
                                     Len(agent'.historical_lifespans))
                /\ agent'.give_up_threshold
                      >= Min(agent.give_up_threshold, Max(1, t))
                /\ agent'.give_up_threshold
                      <= Max(agent.give_up_threshold, Max(1, t))]_vars

\* C30 witness: at learning_rate 1/2 an update has raised the threshold
\* above the configured one, within the bound.
C30_Witness ==
    /\ LearningRun
    /\ pc = "for"
    /\ Len(all_generation_data) >= 1
    /\ 2 * config.learning_rate = LRDen
    /\ agent.give_up_threshold
          > all_generation_data[Len(all_generation_data)].threshold_used
    /\ agent.give_up_threshold > config.agent_initial_threshold
    /\ agent.give_up_threshold
          <= Max(config.agent_initial_threshold,
                 config.max_steps_per_generation)

============================================================================
